---- MODULE Spec2Model ----
(***************************************************************************)
(* A model of the ReAct control loop of read-agent (src/src/agent.py) and  *)
(* of the interactive session that drives it (src/main.py).                *)
(*                                                                         *)
(* Text is modelled as a sequence of tokens.  A token is a marker literal  *)
(* of the response grammar ("Thought:", "Action:", ...), one whitespace    *)
(* character (" " or "\n"), one punctuation character, an identifier       *)
(* (a maximal run of \w characters) or another run of ordinary characters. *)
(* The regular expressions of the parser are evaluated over tokens with    *)
(* Python's leftmost, greedy/lazy backtracking order.                      *)
(***************************************************************************)
EXTENDS Integers, Sequences, FiniteSets, TLC

VARIABLES
    max_steps,              \* ReadAgent.max_steps
    stream_output,          \* ReadAgent.stream_output
    conversation_history,   \* ReadAgent.conversation_history
    memories,               \* ReadAgent.memories
    steps,                  \* ReadAgent.steps
    pc,                     \* "idle": main waits for input; "running": inside ask's loop
    last,                   \* the operation that led to this state
    \* The locals and results of the last operation; the next one forgets them.
    step,                   \* the loop variable of ask
    question,               \* the argument of ask
    outcome,                \* how ask ended
    ret,                    \* the value ask returned
    printed,                \* the answer ask printed (streaming)
    stats,                  \* the value get_stats returned
    history0,               \* conversation_history when ask or clear_history was called
    memories0,              \* memories when ask or clear_history was called
    upserts,                \* the records stored since the memory was last cleared
    dispatched,             \* the calls of execute_tool's body in the current ask
    calls,                  \* the calls of _call_llm since the session was last cleared
    parse                   \* the response last handed to the parser, with its result

vars == <<max_steps, stream_output, conversation_history, memories, steps, pc,
          last, step, question, outcome, ret, printed, stats, history0, memories0,
          upserts, dispatched, calls, parse>>

----------------------------------------------------------------------------
(* Bounds of the model *)

\* max_steps is drawn from 1..MaxSteps
MaxSteps == 2

\* the model is called at most MaxCalls times between two clears of the session
MaxCalls == 3

----------------------------------------------------------------------------
(* Tokens *)

NL == "\n"
SP == " "
QUOTE == "\""

\* \s
IsSpace(t) == t \in {SP, NL}

\* \w+ : the identifiers that occur in the modelled responses
Identifiers == {"read_file", "list_dir", "nope", "path", "file", "tool_name",
                "A", "done", "max_lines", "10"}

IsWord(t) == t \in Identifiers

Min(a, b) == IF a < b THEN a ELSE b

\* the number of whitespace tokens of s from index i on (\s* , greedy)
RECURSIVE SpaceRun(_, _)
SpaceRun(s, i) ==
    IF i <= Len(s) /\ IsSpace(s[i]) THEN 1 + SpaceRun(s, i + 1) ELSE 0

\* str.strip()
RECURSIVE LStrip(_)
LStrip(s) == IF s # <<>> /\ IsSpace(Head(s)) THEN LStrip(Tail(s)) ELSE s

RECURSIVE RStrip(_)
RStrip(s) ==
    IF s # <<>> /\ IsSpace(s[Len(s)]) THEN RStrip(SubSeq(s, 1, Len(s) - 1)) ELSE s

Strip(s) == RStrip(LStrip(s))

\* the indices of s, in order, that hold token t
Occurrences(s, t) == {i \in 1..Len(s) : s[i] = t}

\* $ without re.MULTILINE: the end of the string, or before a final newline
AtEnd(s, e) == e = Len(s) + 1 \/ (e = Len(s) /\ s[e] = NL)

\* whether s holds tokens a, b at indices e, e+1
Holds2(s, e, a, b) == e + 1 <= Len(s) /\ s[e] = a /\ s[e + 1] = b

----------------------------------------------------------------------------
(* The Response Grammar Parser *)

\* the end of a lazy group (.+?) : the terminator "\n<next>" , or $
GroupEnds(s, e, next) == AtEnd(s, e) \/ Holds2(s, e, NL, next)

\* The match of  <marker>\s*(.+?)(?:\n<next>|$)  with the marker at index i:
\* \s* takes as many whitespace tokens as leave a match, the group as few
\* tokens (at least one) as reach a terminator.  <<>> when there is none,
\* otherwise <<group>>.
CaptureAt(s, i, next) ==
    LET Ends(p) == {e \in (p + 1)..(Len(s) + 1) : GroupEnds(s, e, next)}
        W == {w \in 0..SpaceRun(s, i + 1) : Ends(i + 1 + w) # {}}
    IN  IF W = {} THEN <<>>
        ELSE LET w == CHOOSE x \in W : \A y \in W : y <= x
                 p == i + 1 + w
                 e == CHOOSE x \in Ends(p) : \A y \in Ends(p) : x <= y
             IN  <<SubSeq(s, p, e - 1)>>

\* re.search of the pattern above: the leftmost marker that gives a match
Capture(s, marker, next) ==
    LET I == {i \in Occurrences(s, marker) : CaptureAt(s, i, next) # <<>>}
    IN  IF I = {} THEN <<>>
        ELSE CaptureAt(s, CHOOSE i \in I : \A j \in I : i <= j, next)

\* The match of  Action:\s*(\w+)\(([^)]*)\)  with the marker at index i:
\* <<>> or <<name, args>>
ActionAt(s, i) ==
    LET p == i + 1 + SpaceRun(s, i + 1)
        C == {c \in (p + 2)..Len(s) : s[c] = ")"}
    IN  IF p + 1 <= Len(s) /\ IsWord(s[p]) /\ s[p + 1] = "(" /\ C # {}
        THEN <<s[p], SubSeq(s, p + 2, (CHOOSE c \in C : \A d \in C : c <= d) - 1)>>
        ELSE <<>>

\* action_args[k] = v on a dict kept as its items in insertion order
DictSet(d, k, v) ==
    IF \E n \in 1..Len(d) : d[n].k = k
    THEN [n \in 1..Len(d) |-> IF d[n].k = k THEN [k |-> k, v |-> v] ELSE d[n]]
    ELSE Append(d, [k |-> k, v |-> v])

\* for match in re.finditer(r'(\w+)="([^"]*)"', args_str)
RECURSIVE ParseArgs(_, _, _)
ParseArgs(a, i, acc) ==
    IF i > Len(a) THEN acc
    ELSE LET Q == {q \in (i + 3)..Len(a) : a[q] = QUOTE}
         IN  IF IsWord(a[i]) /\ Holds2(a, i + 1, "=", QUOTE) /\ Q # {}
             THEN LET q == CHOOSE x \in Q : \A y \in Q : x <= y
                  IN  ParseArgs(a, q + 1, DictSet(acc, a[i], SubSeq(a, i + 3, q - 1)))
             ELSE ParseArgs(a, i + 1, acc)

_extract_thought_action(response) ==
    LET thought_match == Capture(response, "Thought:", "Action:")
        A == {i \in Occurrences(response, "Action:") : ActionAt(response, i) # <<>>}
        action_match ==
            IF A = {} THEN <<>>
            ELSE ActionAt(response, CHOOSE i \in A : \A j \in A : i <= j)
    IN  [thought |-> IF thought_match # <<>> THEN Strip(thought_match[1]) ELSE <<>>,
         action |-> IF action_match # <<>> THEN action_match[1] ELSE "",
         action_args |-> IF action_match # <<>>
                         THEN ParseArgs(action_match[2], 1, <<>>) ELSE <<>>]

\* the six labelled lines of a Memory: block
Labels == <<"file:", "overview:", "key_definitions:", "core_logic:",
            "dependencies:", "needed_info:">>

\* the terminator of the k-th group of the Memory pattern at index e
FieldEnds(s, e, k) ==
    IF k < Len(Labels) THEN Holds2(s, e, NL, Labels[k + 1])
    ELSE AtEnd(s, e) \/ Holds2(s, e, NL, NL)

\* The groups k..6 of
\*   file:\s*(.+?)\noverview:\s*(.+?)\n...\nneeded_info:\s*(.+?)(?:\n\n|$)
\* when the k-th label ends just before index pos: <<>> when the rest of the
\* pattern does not match, otherwise the groups.  MemSpace tries the lengths
\* of \s* from the longest down, MemGroup the ends of (.+?) from the nearest.
RECURSIVE MemSpace(_, _, _, _)
RECURSIVE MemGroup(_, _, _, _)
MemGroup(s, k, p, e) ==
    IF e > Len(s) + 1 THEN <<>>
    ELSE IF ~FieldEnds(s, e, k) THEN MemGroup(s, k, p, e + 1)
    ELSE IF k = Len(Labels) THEN <<SubSeq(s, p, e - 1)>>
    ELSE LET rest == MemSpace(s, k + 1, e + 2, SpaceRun(s, e + 2))
         IN  IF rest # <<>> THEN <<SubSeq(s, p, e - 1)>> \o rest
             ELSE MemGroup(s, k, p, e + 1)

MemSpace(s, k, pos, w) ==
    IF w < 0 THEN <<>>
    ELSE LET r == MemGroup(s, k, pos + w, pos + w + 1)
         IN  IF r # <<>> THEN r ELSE MemSpace(s, k, pos, w - 1)

\* MemoryAt, had a block been accepted on its file: line alone
MemoryAtFileOnly(s, i) ==
    LET f == i + 1 + SpaceRun(s, i + 1)
        N == {e \in (f + 1)..(Len(s) + 1) : e = Len(s) + 1 \/ s[e] = NL}
    IN  IF f <= Len(s) /\ s[f] = Labels[1]
        THEN <<SubSeq(s, f + 1, (CHOOSE e \in N : \A d \in N : e <= d) - 1),
               <<>>, <<>>, <<>>, <<>>, <<>>>>
        ELSE <<>>

\* The match of the Memory pattern with "Memory:" at index i
MemoryAt(s, i) ==
    LET f == i + 1 + SpaceRun(s, i + 1)
    IN  IF f <= Len(s) /\ s[f] = Labels[1]
        THEN MemSpace(s, 1, f + 1, SpaceRun(s, f + 1))
        ELSE <<>>

\* str.split(",")
RECURSIVE SplitComma(_, _)
SplitComma(s, cur) ==
    IF s = <<>> THEN <<cur>>
    ELSE IF Head(s) = "," THEN <<cur>> \o SplitComma(Tail(s), <<>>)
    ELSE SplitComma(Tail(s), Append(cur, Head(s)))

\* [k.strip() for k in group.split(",") if k.strip()]
StrippedItems(group) ==
    LET parts == SplitComma(group, <<>>)
    IN  SelectSeq([n \in 1..Len(parts) |-> Strip(parts[n])], LAMBDA x : x # <<>>)

\* the Python value None
None == [none |-> TRUE]

_extract_final_answer(response) ==
    LET answer_match == Capture(response, "Final Answer:", "Memory:")
        M == {i \in Occurrences(response, "Memory:") : MemoryAt(response, i) # <<>>}
        g == MemoryAt(response, CHOOSE i \in M : \A j \in M : i <= j)
    IN  [answer |-> IF answer_match # <<>> THEN Strip(answer_match[1]) ELSE <<>>,
         memory_data |->
            IF M = {} THEN None
            ELSE [file |-> Strip(g[1]),
                  overview |-> Strip(g[2]),
                  key_definitions |-> StrippedItems(g[3]),
                  core_logic |-> Strip(g[4]),
                  dependencies |-> StrippedItems(g[5]),
                  needed_info |-> Strip(g[6])]]

----------------------------------------------------------------------------
(* The Tool Registry and Dispatcher.  A Python dict is a record when its  *)
(* keys are fixed and a sequence of [k, v] items when they are parsed.    *)

\* ToolExecutor.register_tools
ToolNames == {"read_file", "find_files", "search_code", "find_by_ext",
              "list_dir", "get_file_info"}

\* the keyword parameters of each bound operation
ToolParams(tool) ==
    CASE tool = "read_file" -> {"path", "max_lines", "start_line"}
      [] tool = "find_files" -> {"pattern", "max_results"}
      [] tool = "search_code" -> {"keyword", "extensions", "max_results"}
      [] tool = "find_by_ext" -> {"extensions", "max_results"}
      [] tool = "list_dir" -> {"path"}
      [] tool = "get_file_info" -> {"path"}

\* those without a default
RequiredParams(tool) ==
    CASE tool = "read_file" -> {"path"}
      [] tool = "search_code" -> {"keyword"}
      [] tool = "get_file_info" -> {"path"}
      [] OTHER -> {}

Keys(kwargs) == {kwargs[n].k : n \in 1..Len(kwargs)}

Get(kwargs, k) == kwargs[CHOOSE n \in 1..Len(kwargs) : kwargs[n].k = k].v

\* Python binds  execute_tool(self, tool_name, **kwargs)  before the body
\* runs: a keyword argument named like a positional parameter is a TypeError
\* raised at the call, outside execute_tool's try block.
CallRaises(kwargs) == Keys(kwargs) \cap {"self", "tool_name"} # {}

\* binding  self._tool_registry[tool_name](**kwargs)  raises TypeError for an
\* unexpected keyword or a missing required parameter
BindRaises(tool, kwargs) ==
    ~(Keys(kwargs) \subseteq ToolParams(tool)) \/
    ~(RequiredParams(tool) \subseteq Keys(kwargs))

\* a Python value with its type
PyStr(v) == [type |-> "str", value |-> v]
PyInt(n) == [type |-> "int", value |-> n]

\* the value bound to parameter k: the keyword argument, a str as parsed, or
\* the default of the signature
Param(kwargs, k, default) ==
    IF k \in Keys(kwargs) THEN PyStr(Get(kwargs, k)) ELSE default

\* _read_file .. _get_file_info: the arguments with which the bound method
\* calls the operation of the Code Index Provider, once the call is bound
SearcherCall(tool, kwargs) ==
    CASE tool = "read_file" ->
             [path |-> Param(kwargs, "path", PyStr(<<>>)),
              max_lines |-> Param(kwargs, "max_lines", PyInt(500)),
              start_line |-> Param(kwargs, "start_line", PyInt(1))]
      [] tool = "find_files" ->
             [pattern |-> Param(kwargs, "pattern", PyStr(<<"*">>)),
              max_results |-> Param(kwargs, "max_results", PyInt(20))]
      [] tool = "search_code" ->
             [keyword |-> Param(kwargs, "keyword", PyStr(<<>>)),
              extensions |-> Param(kwargs, "extensions", PyStr(<<"*">>)),
              max_results |-> Param(kwargs, "max_results", PyInt(20))]
      [] tool = "find_by_ext" ->
             [extensions |-> Param(kwargs, "extensions", PyStr(<<"py">>)),
              max_results |-> Param(kwargs, "max_results", PyInt(20))]
      [] tool = "list_dir" -> [path |-> Param(kwargs, "path", PyStr(<<".">>))]
      [] tool = "get_file_info" -> [path |-> Param(kwargs, "path", PyStr(<<>>))]

\* What the Code Index Provider does is the environment's choice.
SearcherOutcomes == {"ok", "raise"}

\* CodeSearcher.<tool>(...): the value returned when the call does not raise
searcher(tool, kwargs) ==
    IF tool \in {"read_file", "get_file_info", "list_dir"} /\ "path" \in Keys(kwargs)
    THEN <<"<", tool, " of ">> \o Get(kwargs, "path") \o <<">">>
    ELSE <<"<", tool, ">">>

execute_tool(tool_name, kwargs, oc) ==
    IF tool_name \notin ToolNames
    THEN [error |-> <<"unknown tool: ", tool_name>>]
    ELSE IF BindRaises(tool_name, kwargs)
    THEN [success |-> FALSE, tool |-> tool_name, error |-> <<"TypeError">>]
    ELSE IF oc = "raise"
    THEN [success |-> FALSE, tool |-> tool_name, error |-> <<"searcher error">>]
    ELSE [success |-> TRUE, tool |-> tool_name, result |-> searcher(tool_name, kwargs)]

\* json.dumps(tool_result, ensure_ascii=False)
JsonDumps(d) ==
    LET Str(v) == <<QUOTE>> \o v \o <<QUOTE>>
    IN  IF "success" \notin DOMAIN d
        THEN <<"{", "\"error\": ">> \o Str(d.error) \o <<"}">>
        ELSE IF d.success
        THEN <<"{", "\"success\": ", "true", ", ", "\"tool\": ">> \o Str(<<d.tool>>)
             \o <<", ", "\"result\": ">> \o Str(d.result) \o <<"}">>
        ELSE <<"{", "\"success\": ", "false", ", ", "\"tool\": ">> \o Str(<<d.tool>>)
             \o <<", ", "\"error\": ">> \o Str(d.error) \o <<"}">>

----------------------------------------------------------------------------
(* The Memory Store *)

\* Memory(file_path=..., overview=..., ...)
Memory(memory_data) ==
    [file_path |-> memory_data.file,
     overview |-> memory_data.overview,
     key_definitions |-> memory_data.key_definitions,
     core_logic |-> memory_data.core_logic,
     dependencies |-> memory_data.dependencies,
     needed_info |-> memory_data.needed_info]

\* list.remove(x): without the first element equal to x
Remove(l, x) ==
    LET n == CHOOSE i \in 1..Len(l) : l[i] = x /\ \A j \in 1..(i - 1) : l[j] # x
    IN  SubSeq(l, 1, n - 1) \o SubSeq(l, n + 1, Len(l))

\* whether ask stores a record for the parsed memory_data
Stores(memory_data) == memory_data # None /\ memory_data.file # <<>>

\* Upsert, had it kept the new record alone
UpsertAlone(mems, memory_data) ==
    IF Stores(memory_data) THEN <<Memory(memory_data)>> ELSE mems

\* Upsert, had it appended without removing the stored record
UpsertAppends(mems, memory_data) ==
    IF Stores(memory_data) THEN Append(mems, Memory(memory_data)) ELSE mems

\* Upsert, had it replaced the stored record where it stands
UpsertInPlace(mems, memory_data) ==
    IF Stores(memory_data)
    THEN IF \E n \in 1..Len(mems) : mems[n].file_path = memory_data.file
         THEN [n \in 1..Len(mems) |->
                  IF mems[n].file_path = memory_data.file
                  THEN Memory(memory_data) ELSE mems[n]]
         ELSE Append(mems, Memory(memory_data))
    ELSE mems

\* the memories after ask has handled the parsed memory_data
Upsert(mems, memory_data) ==
    IF Stores(memory_data)
    THEN LET existing == SelectSeq(mems, LAMBDA m : m.file_path = memory_data.file)
         IN  Append(IF existing # <<>> THEN Remove(mems, existing[1]) ELSE mems,
                    Memory(memory_data))
    ELSE mems

----------------------------------------------------------------------------
(* The Context Assembler and the output formatting.  Fixed texts of the    *)
(* source are single tokens, given here in English.                        *)

\* sep.join(parts)
RECURSIVE Join(_, _)
Join(parts, sep) ==
    IF parts = <<>> THEN <<>>
    ELSE IF Len(parts) = 1 THEN parts[1]
    ELSE parts[1] \o sep \o Join(Tail(parts), sep)

\* Memory.to_string
to_string(m) ==
    Join(<<<<"file ">> \o m.file_path>>
         \o (IF m.overview # <<>> THEN <<<<"overview: ">> \o m.overview>> ELSE <<>>)
         \o (IF m.key_definitions # <<>>
             THEN <<<<"key definitions: ">> \o Join(m.key_definitions, <<"; ">>)>>
             ELSE <<>>)
         \o (IF m.core_logic # <<>> THEN <<<<"core logic: ">> \o m.core_logic>> ELSE <<>>)
         \o (IF m.dependencies # <<>>
             THEN <<<<"dependencies: ">> \o Join(m.dependencies, <<" -> ">>)>>
             ELSE <<>>)
         \o (IF m.needed_info # <<>> THEN <<<<"to verify: ">> \o m.needed_info>> ELSE <<>>),
         <<NL>>)

\* _build_system_prompt, had it left the memories out
_build_system_prompt_static ==
    <<"<instructions>", "<tools_info>", "<rules>", ToString(max_steps)>>

_build_system_prompt ==
    LET memories_info ==
            IF memories # <<>>
            THEN <<NL, NL, "Memory of the files read:", NL>>
                 \o Join([n \in 1..Len(memories) |-> to_string(memories[n])], <<NL>>)
            ELSE <<>>
    IN  <<"<instructions>", "<tools_info>", "<rules>", ToString(max_steps)>>
        \o memories_info

\* the messages _think_and_act hands to _call_llm
_think_and_act(user_question) ==
    <<[role |-> "system", content |-> _build_system_prompt]>>
    \o conversation_history
    \o <<[role |-> "user", content |-> user_question \o <<NL, NL, "<reply format>">>]>>

\* the slice [:500]
TruncateLen == 500

Truncate(s) == SubSeq(s, 1, Min(Len(s), TruncateLen))

\* str(action_args), the repr of a dict
DictRepr(d) ==
    <<"{">>
    \o Join([n \in 1..Len(d) |-> <<"'", d[n].k, "': '">> \o d[n].v \o <<"'">>], <<", ">>)
    \o <<"}">>

\* f"{action}({action_args})"
ActionStr(action, action_args) == <<action, "(">> \o DictRepr(action_args) \o <<")">>

\* obs.get("success") is truthy
Succeeded(obs) == "success" \in DOMAIN obs /\ obs.success

_format_step(st) ==
    Join(<<<<NL, "step ", ToString(st.step)>>>>
         \o (IF st.thought # <<>> THEN <<<<"thought: ">> \o st.thought>> ELSE <<>>)
         \o (IF "action" \in DOMAIN st /\ st.action # <<>> THEN <<<<"action: ">> \o st.action>> ELSE <<>>)
         \o (IF "observation" \in DOMAIN st
             THEN IF Succeeded(st.observation)
                  THEN <<<<"result: ">>
                         \o Truncate(<<QUOTE>> \o st.observation.result \o <<QUOTE>>)>>
                  ELSE <<<<"error: ">> \o st.observation.error>>
             ELSE <<>>),
         <<NL>>)

\* the line that introduces the answer
AnswerLine == "answer:\n"

\* _format_output over step records sts
_format_output(q, answer, sts) ==
    Join(<<<<NL, "====">>, <<"question: ">> \o q, <<NL, "analysis:">>>>
         \o [n \in 1..Len(sts) |-> _format_step(sts[n])]
         \o <<<<NL, "====">>, <<AnswerLine>> \o answer>>,
         <<NL>>)

\* the fixed message of the exhausted step budget
BudgetMessage == <<"step limit reached, please ask a more specific question.">>

----------------------------------------------------------------------------
(* The inputs of a session: what the user asks and what the model replies *)

Questions == {<<"why?">>}

\* a well-formed Memory: block for file f with overview o
MemoryBlock(f, o) ==
    <<NL, "Memory:", NL, "file:", SP, f, NL, "overview:", SP, o, NL,
      "key_definitions:", SP, "A", ",", SP, "done", NL, "core_logic:", SP, "ok.", NL,
      "dependencies:", SP, "a.py", NL, "needed_info:", SP, "ok.">>

ReadCall == <<"Action:", SP, "read_file", "(", "path", "=", QUOTE, "a.py", QUOTE, ")">>

Responses ==
    { <<"ok.">>,                                                  \* no marker
      <<"Thought:", SP, "A", NL>> \o ReadCall,                    \* a tool call
      <<"Action:", SP, "nope", "(", ")">>,                        \* unregistered tool
      <<"Action:", SP, "read_file", "(", "tool_name", "=", QUOTE, "A", QUOTE, ")">>,
      ReadCall \o <<NL, "Final Answer:", SP, "ok.">>,             \* a call and an answer
      <<"Thought:", SP, "done", NL, "Final Answer:", SP, "ok.">>
          \o MemoryBlock("a.py", "A"),
      <<"Final Answer:", SP, "ok.">> \o MemoryBlock("a.py", "done"),
      <<"Thought:", SP, "A">> \o MemoryBlock("b.py", "A") }       \* memory, no answer

----------------------------------------------------------------------------
(* The session *)

\* get_stats has not just returned
NoStats == [none |-> TRUE]

\* no response has just been parsed
NoParse == [none |-> TRUE]

\* thought, action, action_args = self._extract_thought_action(response)
\* final_answer, memory_data = self._extract_final_answer(response)
Parsed(response, ta, fa) ==
    [response |-> response,
     thought |-> ta.thought,
     action |-> ta.action,
     action_args |-> ta.action_args,
     answer |-> fa.answer,
     memory_data |-> fa.memory_data]

Init ==
    /\ max_steps \in 1..MaxSteps
    /\ stream_output \in BOOLEAN
    /\ conversation_history = <<>>
    /\ memories = <<>>
    /\ steps = <<>>
    /\ pc = "idle"
    /\ last = "init"
    /\ step = 0
    /\ question = <<>>
    /\ outcome = "none"
    /\ ret = <<>>
    /\ printed = <<>>
    /\ stats = NoStats
    /\ history0 = <<>>
    /\ memories0 = <<>>
    /\ upserts = <<>>
    /\ dispatched = 0
    /\ calls = 0
    /\ parse = NoParse

\* the locals and results of an earlier ask are gone
ForgetAsk ==
    /\ step' = 0
    /\ question' = <<>>
    /\ outcome' = "none"
    /\ ret' = <<>>
    /\ printed' = <<>>
    /\ history0' = <<>>
    /\ memories0' = <<>>
    /\ dispatched' = 0

\* HasNext, had the loop run one iteration more
HasNextOneMore(st, n) == st <= n

\* for step in range(1, self.max_steps + 1): whether an iteration follows
\* the one numbered st
HasNext(st, n) == st < n

\* ask returns answer: what it prints and what it returns
Returned(q, answer, sts) ==
    IF stream_output THEN [printed |-> answer, ret |-> <<>>]
    ELSE [printed |-> <<>>, ret |-> _format_output(q, answer, sts)]

\* AskBegin, had ask started from an empty history
AskBeginFreshHistory(q) ==
    /\ pc = "idle"
    /\ calls < MaxCalls
    /\ steps' = <<>>
    /\ conversation_history' = <<[role |-> "user", content |-> q]>>
    /\ pc' = "running"
    /\ last' = "ask"
    /\ step' = 1
    /\ question' = q
    /\ outcome' = "pending"
    /\ ret' = <<>>
    /\ printed' = <<>>
    /\ stats' = NoStats
    /\ history0' = conversation_history
    /\ memories0' = memories
    /\ dispatched' = 0
    /\ parse' = NoParse
    /\ UNCHANGED <<max_steps, stream_output, memories, upserts, calls>>

\* AskBegin, had ask not reset the step records
AskBeginKeepsSteps(q) ==
    /\ pc = "idle"
    /\ calls < MaxCalls
    /\ conversation_history' = Append(conversation_history, [role |-> "user", content |-> q])
    /\ pc' = "running"
    /\ last' = "ask"
    /\ step' = 1
    /\ question' = q
    /\ outcome' = "pending"
    /\ ret' = <<>>
    /\ printed' = <<>>
    /\ stats' = NoStats
    /\ history0' = conversation_history
    /\ memories0' = memories
    /\ dispatched' = 0
    /\ parse' = NoParse
    /\ UNCHANGED <<max_steps, stream_output, memories, upserts, calls, steps>>

\* ask(question), up to the first call of the model
AskBegin(q) ==
    /\ pc = "idle"
    /\ calls < MaxCalls
    /\ steps' = <<>>
    /\ conversation_history' = Append(conversation_history, [role |-> "user", content |-> q])
    /\ pc' = "running"
    /\ last' = "ask"
    /\ step' = 1
    /\ question' = q
    /\ outcome' = "pending"
    /\ ret' = <<>>
    /\ printed' = <<>>
    /\ stats' = NoStats
    /\ history0' = conversation_history
    /\ memories0' = memories
    /\ dispatched' = 0
    /\ parse' = NoParse
    /\ UNCHANGED <<max_steps, stream_output, memories, upserts, calls>>

\* Terminates, had the tool call been handled before the final answer
TerminatesUnlessAction(final_answer, action) == final_answer # <<>> /\ action = ""

\* if final_answer: the answer ends the loop, whatever the action
Terminates(final_answer, action) == final_answer # <<>>

\* Dispatches, had ask called the dispatcher at every step
DispatchesAlways(action) == TRUE

\* if action: the step calls the dispatcher
Dispatches(action) == action # ""

\* One iteration of ask's loop, from the model's reply to the next call of
\* the model or to the end of ask.  oc is what the Code Index Provider does
\* if it is called.
AskStep(response, oc) ==
    /\ pc = "running"
    /\ calls < MaxCalls
    /\ calls' = calls + 1
    /\ \E ta \in {_extract_thought_action(response)},
          fa \in {_extract_final_answer(response)} :
       LET step_info ==
               [step |-> step, raw_response |-> response, thought |-> ta.thought,
                action_str |-> IF ta.action # ""
                               THEN ActionStr(ta.action, ta.action_args) ELSE <<>>]
       IN  /\ parse' = Parsed(response, ta, fa)
           /\ memories' = Upsert(memories, fa.memory_data)
           /\ upserts' = IF Stores(fa.memory_data)
                         THEN Append(upserts, Memory(fa.memory_data)) ELSE upserts
           /\ IF Terminates(fa.answer, ta.action)
              THEN LET sts == Append(steps, step_info @@ [final_answer |-> fa.answer])
                   IN  /\ oc = "ok"
                       /\ steps' = sts
                       /\ conversation_history' =
                              Append(conversation_history,
                                     [role |-> "assistant", content |-> fa.answer])
                       /\ printed' = Returned(question, fa.answer, sts).printed
                       /\ ret' = Returned(question, fa.answer, sts).ret
                       /\ pc' = "idle"
                       /\ outcome' = "answer"
                       /\ UNCHANGED <<step, dispatched>>
              ELSE IF Dispatches(ta.action) /\ CallRaises(ta.action_args)
              THEN \* the TypeError leaves ask
                   /\ oc = "ok"
                   /\ pc' = "idle"
                   /\ outcome' = "tool_call_error"
                   /\ UNCHANGED <<steps, conversation_history, printed, ret, step,
                                  dispatched>>
              ELSE LET tool_result == execute_tool(ta.action, ta.action_args, oc)
                       sts == Append(steps,
                                     IF Dispatches(ta.action)
                                     THEN step_info
                                          @@ [action |-> ActionStr(ta.action, ta.action_args),
                                              observation |-> tool_result]
                                     ELSE step_info)
                   IN  /\ steps' = sts
                       /\ IF Dispatches(ta.action)
                          THEN /\ oc = "raise" => ta.action \in ToolNames
                               /\ dispatched' = dispatched + 1
                               /\ conversation_history' =
                                      Append(conversation_history,
                                             [role |-> "user",
                                              content |-> <<"Observation: ">>
                                                          \o JsonDumps(tool_result)])
                          ELSE /\ oc = "ok"
                               /\ UNCHANGED <<dispatched, conversation_history>>
                       /\ IF HasNext(step, max_steps)
                          THEN /\ step' = step + 1
                               /\ UNCHANGED <<pc, outcome, ret, printed>>
                          ELSE \* the loop is over without a final answer
                               /\ pc' = "idle"
                               /\ outcome' = "budget"
                               /\ printed' = Returned(question, BudgetMessage, sts).printed
                               /\ ret' = Returned(question, BudgetMessage, sts).ret
                               /\ UNCHANGED step
    /\ last' = "step"
    /\ UNCHANGED <<max_steps, stream_output, question, stats, history0, memories0>>

\* TransportFailure, had ask undone its changes when the call fails
TransportFailureRollsBack ==
    /\ pc = "running"
    /\ calls < MaxCalls
    /\ calls' = calls + 1
    /\ pc' = "idle"
    /\ last' = "transport_failure"
    /\ outcome' = "transport_error"
    /\ conversation_history' = history0
    /\ memories' = memories0
    /\ UNCHANGED <<max_steps, stream_output, steps, step, question, ret, printed, stats,
                   history0, memories0, upserts, dispatched>>
    /\ parse' = NoParse

\* _call_llm raises: the exception leaves _think_and_act and ask, and main
\* reports it
TransportFailure ==
    /\ pc = "running"
    /\ calls < MaxCalls
    /\ calls' = calls + 1
    /\ pc' = "idle"
    /\ last' = "transport_failure"
    /\ outcome' = "transport_error"
    /\ UNCHANGED <<max_steps, stream_output, conversation_history, memories, steps,
                   step, question, ret, printed, stats, history0, memories0, upserts,
                   dispatched>>
    /\ parse' = NoParse

clear_memory ==
    /\ pc = "idle"
    /\ memories' = <<>>
    /\ upserts' = <<>>
    /\ last' = "clear_memory"
    /\ stats' = NoStats
    /\ ForgetAsk
    /\ parse' = NoParse
    /\ UNCHANGED <<max_steps, stream_output, conversation_history, steps, pc, calls>>

\* clear_history, had it left the step records
clear_history_keeps_steps ==
    /\ pc = "idle"
    /\ conversation_history' = <<>>
    /\ memories' = <<>>
    /\ upserts' = <<>>
    /\ calls' = 0
    /\ last' = "clear_history"
    /\ stats' = NoStats
    /\ step' = 0
    /\ question' = <<>>
    /\ outcome' = "none"
    /\ ret' = <<>>
    /\ printed' = <<>>
    /\ history0' = conversation_history
    /\ memories0' = memories
    /\ dispatched' = 0
    /\ parse' = NoParse
    /\ UNCHANGED <<max_steps, stream_output, pc, steps>>

\* main's "clear"
clear_history ==
    /\ pc = "idle"
    /\ conversation_history' = <<>>
    /\ memories' = <<>>
    /\ steps' = <<>>
    /\ upserts' = <<>>
    /\ calls' = 0
    /\ last' = "clear_history"
    /\ stats' = NoStats
    /\ step' = 0
    /\ question' = <<>>
    /\ outcome' = "none"
    /\ ret' = <<>>
    /\ printed' = <<>>
    /\ history0' = conversation_history
    /\ memories0' = memories
    /\ dispatched' = 0
    /\ parse' = NoParse
    /\ UNCHANGED <<max_steps, stream_output, pc>>

\* main's "status"
get_stats ==
    /\ pc = "idle"
    /\ stats' = [conversation_length |-> Len(conversation_history),
                 memory_count |-> Len(memories),
                 total_steps |-> Len(steps),
                 code_dir |-> "root_dir"]
    /\ last' = "get_stats"
    /\ ForgetAsk
    /\ parse' = NoParse
    /\ UNCHANGED <<max_steps, stream_output, conversation_history, memories, steps, pc,
                   upserts, calls>>

Next ==
    \/ \E q \in Questions : AskBegin(q)
    \/ \E r \in Responses, oc \in SearcherOutcomes : AskStep(r, oc)
    \/ TransportFailure
    \/ clear_memory
    \/ clear_history
    \/ get_stats

Spec == Init /\ [][Next]_vars

----------------------------------------------------------------------------
(* One question and its first reply, drawn from a wider set of replies: the *)
(* parser, the dispatcher and the store on one step of ask                 *)

\* the texts of a Thought line
ThoughtTexts == {<<"A">>, <<"A", SP, "done">>, <<>>}

\* the values of a quoted argument
ArgValues == {<<"a.py">>, <<"a", ")", ".py">>, <<"10">>, <<>>}

\* the argument lists of an Action line: up to two arguments, distinct keys
ArgLists ==
    {<<>>}
    \cup {<<[k |-> "path", v |-> v]>> : v \in ArgValues}
    \cup {<<[k |-> "path", v |-> v], [k |-> "max_lines", v |-> w]>> :
             v \in ArgValues, w \in ArgValues}

\* Action: name(key="value", ...)
ActionLine(name, args) ==
    <<"Action:", SP, name, "(">>
    \o Join([n \in 1..Len(args) |-> <<args[n].k, "=", QUOTE>> \o args[n].v \o <<QUOTE>>],
            <<",", SP>>)
    \o <<")">>

\* a Thought line followed by an Action line
ThoughtAction(t, name, args) == <<"Thought:", SP>> \o t \o <<NL>> \o ActionLine(name, args)

ThoughtActionInputs ==
    {ThoughtAction(t, name, args) :
         t \in ThoughtTexts, name \in {"read_file", "nope"}, args \in ArgLists}

\* the texts that may follow the k-th label of a Memory: block: a value
\* (for the two lists, elements with blanks and an empty element), nothing,
\* or for the last label a blank
FieldTexts(k) ==
    CASE k = 1 -> {<<SP, "a.py">>, <<>>}
      [] k \in {3, 5} -> {<<SP, "A", ",", SP, ",", "done", SP>>, <<>>}
      [] k = 6 -> {<<SP, "ok.">>, <<>>, <<SP>>}
      [] OTHER -> {<<SP, "ok.">>}

\* the k-th labelled line, or no line
Lines(k) == {<<>>} \cup {<<NL, Labels[k]>> \o v : v \in FieldTexts(k)}

\* a final answer followed by a Memory: block, each line present or not
MemoryInputs ==
    {<<"Final Answer:", SP, "ok.", NL, "Memory:">> \o l1 \o l2 \o l3 \o l4 \o l5 \o l6 :
         l1 \in Lines(1), l2 \in Lines(2), l3 \in Lines(3),
         l4 \in Lines(4), l5 \in Lines(5), l6 \in Lines(6)}

\* a final answer without a Memory: block
AnswerInputs ==
    {<<"Final Answer:", SP, "ok.">>,
     <<"Thought:", SP, "done", NL, "Final Answer:", SP, "ok.">>}

\* the reply that ends the seeding question: an answer with a memory of a.py
SeedResponses == {<<"Final Answer:", SP, "ok.">> \o MemoryBlock("a.py", "done")}

ParserInputs == ThoughtActionInputs \cup MemoryInputs \cup AnswerInputs

\* the first question of a session
FirstAsk(q) == last = "init" /\ AskBegin(q)

\* it may be answered at once by a reply that stores a memory ...
SeedStep(r, oc) == calls = 0 /\ AskStep(r, oc)

\* ... and be followed by a second question
SecondAsk(q) == calls = 1 /\ outcome = "answer" /\ memories # <<>> /\ AskBegin(q)

\* the first iteration of the loop, for the reply under study
FirstStep(r, oc) == last = "ask" /\ AskStep(r, oc)

StepNext ==
    \/ \E q \in Questions : FirstAsk(q)
    \/ \E r \in SeedResponses, oc \in SearcherOutcomes : SeedStep(r, oc)
    \/ \E q \in Questions : SecondAsk(q)
    \/ \E r \in ParserInputs, oc \in SearcherOutcomes : FirstStep(r, oc)

StepSpec == Init /\ [][StepNext]_vars

----------------------------------------------------------------------------
(* Properties *)

IsPrefix(a, b) == Len(a) <= Len(b) /\ SubSeq(b, 1, Len(a)) = a

IsSuffix(a, b) == Len(a) <= Len(b) /\ SubSeq(b, Len(b) - Len(a) + 1, Len(b)) = a

Paths(mems) == {mems[n].file_path : n \in 1..Len(mems)}

\* the index of the last (first) record of the log for file path f
LastUpsert(log, f) ==
    CHOOSE n \in 1..Len(log) :
        log[n].file_path = f /\ \A k \in (n + 1)..Len(log) : log[k].file_path # f

FirstUpsert(log, f) ==
    CHOOSE n \in 1..Len(log) :
        log[n].file_path = f /\ \A k \in 1..(n - 1) : log[k].file_path # f

\* mems holds one record for each path of the log, the last one stored for it
LastPerKey(mems, log) ==
    /\ Paths(mems) = Paths(log)
    /\ \A i, j \in 1..Len(mems) : mems[i].file_path = mems[j].file_path => i = j
    /\ \A i \in 1..Len(mems) : mems[i] = log[LastUpsert(log, mems[i].file_path)]

\* the last step record is for a reply without / with a final answer
Answered(st) == "final_answer" \in DOMAIN st

\* ask has just ended
AskEnded == pc = "idle" /\ outcome \notin {"none", "pending"}

\* C1: an ask in which the model answers every call and no reply holds a final
\* answer ends after exactly max_steps step records with the fixed
\* budget-exhausted message, and no assistant turn is appended to the history.
C1_BudgetTermination ==
    (AskEnded /\ outcome # "transport_error" /\ \A n \in 1..Len(steps) : ~Answered(steps[n]))
    => /\ outcome = "budget"
       /\ Len(steps) = max_steps
       /\ IF stream_output THEN printed = BudgetMessage
          ELSE IsSuffix(<<AnswerLine>> \o BudgetMessage, ret)
       /\ IsPrefix(history0, conversation_history)
       /\ \A n \in (Len(history0) + 1)..Len(conversation_history) :
              conversation_history[n].role = "user"

\* C2 (as amended): the memory store holds exactly the last record stored for
\* each distinct file_path, ordered by the last time each file_path was
\* stored: storing a record for a stored file_path keeps the count and moves
\* that key to the end.
C2_LastRecordPerKeyInLastStoredOrder ==
    /\ LastPerKey(memories, upserts)
    /\ \A i, j \in 1..Len(memories) :
           i < j => LastUpsert(upserts, memories[i].file_path)
                    < LastUpsert(upserts, memories[j].file_path)

\* C2 (as claimed): ... ordered by the first time each file_path was seen.
C2_FirstSeenOrder ==
    /\ LastPerKey(memories, upserts)
    /\ \A i, j \in 1..Len(memories) :
           i < j => FirstUpsert(upserts, memories[i].file_path)
                    < FirstUpsert(upserts, memories[j].file_path)

\* a file_path was stored, then another one, then the first one again
C2_Witness ==
    /\ Len(upserts) = 3
    /\ upserts[1].file_path = upserts[3].file_path
    /\ upserts[1].file_path # upserts[2].file_path
    /\ upserts[1] # upserts[3]
    /\ Len(memories) = 2

\* the reply holds both an Action and a Final Answer
Both(response) ==
    /\ _extract_thought_action(response).action # ""
    /\ _extract_final_answer(response).answer # <<>>

\* C3: when a reply holds both an Action and a Final Answer the ask ends with
\* the final answer and the action is not dispatched: no tool is executed and
\* no observation is appended to the history for that step.
C3_AnswerPrecedence ==
    [][(last' = "step" /\ Len(steps') = Len(steps) + 1
        /\ Both(steps'[Len(steps')].raw_response))
       => LET st == steps'[Len(steps')]
          IN  /\ dispatched' = dispatched
              /\ "observation" \notin DOMAIN st
              /\ Answered(st)
              /\ conversation_history' =
                     Append(conversation_history,
                            [role |-> "assistant", content |-> st.final_answer])
              /\ pc' = "idle"
              /\ outcome' = "answer"]_vars

C3_Witness ==
    /\ AskEnded
    /\ outcome = "answer"
    /\ Both(steps[Len(steps)].raw_response)
    /\ dispatched = 0

\* C4 (as amended): when the model transport fails during an ask the failure
\* reaches the caller of ask and ends that question's loop; the failing call
\* changes neither the history, the memories nor the step records; the
\* history before the ask is a prefix of the history after it, followed by the
\* question (and by the observations of the steps completed before the
\* failure); every file_path stored before the ask is still stored.
C4_TransportFailureKeepsPriorState ==
    [][last' = "transport_failure"
       => /\ pc = "running" /\ pc' = "idle"
          /\ outcome' = "transport_error"
          /\ conversation_history' = conversation_history
          /\ memories' = memories
          /\ steps' = steps
          /\ IsPrefix(history0', conversation_history')
          /\ Len(conversation_history') > Len(history0')
          /\ conversation_history'[Len(history0') + 1]
                 = [role |-> "user", content |-> question']
          /\ Paths(memories0') \subseteq Paths(memories')]_vars

\* C4 (as claimed): after the failed ask the history and the memory store are
\* what they were before that ask was called.
C4_StateAsBeforeAsk ==
    (pc = "idle" /\ outcome = "transport_error")
    => conversation_history = history0 /\ memories = memories0

\* the transport fails in a later question, after a completed step
C4_Witness ==
    /\ pc = "idle"
    /\ outcome = "transport_error"
    /\ history0 # <<>>
    /\ memories0 # <<>>
    /\ steps # <<>>

\* the tool a step record's reply names
ToolOf(st) == _extract_thought_action(st.raw_response).action

\* the structured failure object {success: false, tool: name, error: message}
IsFailureObject(obs, name) ==
    /\ DOMAIN obs = {"success", "tool", "error"}
    /\ obs.success = FALSE
    /\ obs.tool = name
    /\ obs.error # <<>>

\* C5: dispatching a tool name that is not registered returns, without
\* raising, a failure object with success=false, the tool name and an error
\* message; the step is recorded and the step counter advances by one.
C5_UnknownToolFailureObject ==
    \A n \in 1..Len(steps) :
        ("observation" \in DOMAIN steps[n] /\ ToolOf(steps[n]) \notin ToolNames)
        => /\ IsFailureObject(steps[n].observation, ToolOf(steps[n]))
           /\ steps[n].step = n

\* C6: for a registered tool and any parsed arguments, a failure while the
\* tool is executed never leaves ask: the dispatcher returns a failure
\* object, which is appended to the history as an observation, and the loop
\* goes on.
C6_ToolFailureNeverEscapes ==
    /\ outcome # "tool_call_error"
    /\ \A n \in 1..Len(steps) :
           ("observation" \in DOMAIN steps[n] /\ ToolOf(steps[n]) \in ToolNames
            /\ ~Succeeded(steps[n].observation))
           => /\ IsFailureObject(steps[n].observation, ToolOf(steps[n]))
              /\ \E k \in 1..Len(conversation_history) :
                     conversation_history[k]
                         = [role |-> "user",
                            content |-> <<"Observation: ">>
                                        \o JsonDumps(steps[n].observation)]

\* C7: after clear_history the history, the memory store and the step records
\* are empty, and a get_stats that follows reports three zero counts.
C7_ClearEmptiesSession ==
    [][/\ last' = "clear_history"
          => conversation_history' = <<>> /\ memories' = <<>> /\ steps' = <<>>
       /\ (last = "clear_history" /\ last' = "get_stats")
          => /\ stats'.conversation_length = 0
             /\ stats'.memory_count = 0
             /\ stats'.total_steps = 0]_vars

\* a session with turns, memories and step records has been cleared
C7_Witness ==
    /\ last = "clear_history"
    /\ history0 # <<>>
    /\ memories0 # <<>>
    /\ \E n \in 1..Len(history0) : history0[n].role = "assistant"

\* the observation message of a successful read_file of file f
RawObservation(f) ==
    [role |-> "user",
     content |-> <<"Observation: ">>
                 \o JsonDumps(execute_tool("read_file", <<[k |-> "path", v |-> f]>>, "ok"))]

\* C8: once a question that read a file has ended, the messages assembled for
\* a later question do not hold the raw read_file observation of that file,
\* only its memory digest.  Stated for the files that have a memory record.
C8_MemorySubstitutesRawContent ==
    pc = "running"
    => LET messages == _think_and_act(question)
       IN  \A n \in 2..(Len(history0) + 1) :
               \A f \in Paths(memories) : messages[n] # RawObservation(f)

\* C9: when a step's reply holds a final answer, ask returns that answer text
\* (streaming or not) and appends exactly that answer as one assistant turn.
C9_ReturnsAnswer ==
    (AskEnded /\ outcome = "answer")
    => LET answer == steps[Len(steps)].final_answer
       IN  /\ ret # <<>>
           /\ IsSuffix(answer, ret)
           /\ conversation_history[Len(conversation_history)]
                  = [role |-> "assistant", content |-> answer]

\* C10: at the start of every ask the step records are reset to empty and the
\* loop starts at step 1, while every turn and every memory record present
\* before the call is still present; the history and the memories lose
\* entries only by an explicit clear.
C10_AskResetsStepsOnly ==
    [][/\ last' = "ask"
          => /\ steps' = <<>>
             /\ step' = 1
             /\ IsPrefix(conversation_history, conversation_history')
             /\ memories' = memories
       /\ ~IsPrefix(conversation_history, conversation_history')
          => last' = "clear_history"
       /\ ~(Paths(memories) \subseteq Paths(memories'))
          => last' \in {"clear_history", "clear_memory"}]_vars

\* a second question starts in a session with turns, memories and steps
C10_Witness ==
    /\ last = "ask"
    /\ pc = "running"
    /\ steps = <<>>
    /\ history0 # <<>>
    /\ memories # <<>>

\* C12: a step changes the memory store only when it yields a final answer:
\* while an ask has seen no final answer (it is running, or it ended on the
\* step budget or on an exception) the store is what it was when the ask
\* began, even if a reply held a well-formed Memory block.
C12_MemoryOnlyWithAnswer ==
    outcome \in {"pending", "budget", "tool_call_error", "transport_error"}
    => memories = memories0

\* the reply just handled has neither an action nor a final answer
NoOp == last = "step" /\ parse.action = "" /\ parse.answer = <<>>

\* C13: a step whose reply yields neither an action nor a final answer
\* consumes one unit of the step budget and adds one step record (without
\* action, observation or final answer), dispatches no tool and leaves the
\* conversation history unchanged.
C13_NoOpStep ==
    [][NoOp'
       => /\ Len(steps') = Len(steps) + 1
          /\ SubSeq(steps', 1, Len(steps)) = steps
          /\ steps'[Len(steps')].step = step
          /\ DOMAIN steps'[Len(steps')]
                 = {"step", "raw_response", "thought", "action_str"}
          /\ dispatched' = dispatched
          /\ conversation_history' = conversation_history
          /\ IF step < max_steps
             THEN step' = step + 1 /\ pc' = "running"
             ELSE pc' = "idle" /\ outcome' = "budget" /\ Len(steps') = max_steps]_vars

\* a no-op step after a step that dispatched a tool
C13_Witness ==
    /\ NoOp
    /\ Len(steps) = 2
    /\ "observation" \in DOMAIN steps[1]
    /\ parse.response = steps[2].raw_response

\* C14: in every reachable state of a session, after any sequence of ask,
\* clear_memory and clear_history, the memory store holds at most one record
\* per file_path.
C14_OneRecordPerPath ==
    \A i, j \in 1..Len(memories) :
        memories[i].file_path = memories[j].file_path => i = j

\* a stored file_path has been stored again, beside another one
C14_Witness ==
    /\ Len(memories) = 2
    /\ \E n \in 1..Len(upserts) :
           /\ upserts[n].file_path = memories[2].file_path
           /\ upserts[n] # memories[2]

\* C15: ask always ends: it calls the model at most max_steps times, once per
\* step (the k-th call is made with k-1 step records, a failed call is not
\* repeated), and it ends in exactly one of the answer, the exhausted budget
\* or a propagated transport failure.
C15_AskTerminates ==
    /\ pc = "running" => step \in 1..max_steps /\ Len(steps) = step - 1
    /\ pc = "idle" => outcome \in {"none", "answer", "budget", "transport_error"}
    /\ AskEnded => Len(steps) <= max_steps

\* C16: the conversation history is append-only between clears: whatever is
\* done other than clear_history, the history before is a prefix of the
\* history after (no turn is removed, reordered or rewritten).
C16_HistoryAppendOnly ==
    [][last' # "clear_history"
       => IsPrefix(conversation_history, conversation_history')]_vars

\* a later question has added turns behind those of an earlier one
C16_Witness ==
    /\ last = "step"
    /\ history0 # <<>>
    /\ Len(conversation_history) >= Len(history0) + 2
    /\ IsPrefix(history0, conversation_history)

\* text s holds text sub
Contains(s, sub) ==
    \E i \in 1..(Len(s) - Len(sub) + 1) : SubSeq(s, i, i + Len(sub) - 1) = sub

\* C18: the messages sent to the model at each step are one system message,
\* then the whole conversation history in its order, then one user message
\* that holds the question; the system message holds the memory digest if
\* and only if the store is not empty, and the digest lists every record
\* stored at that step, those stored earlier in the same ask included.
C18_MessagesAssembled ==
    pc = "running"
    => LET messages == _think_and_act(question)
           n == Len(messages)
       IN  /\ n = Len(conversation_history) + 2
           /\ messages[1].role = "system"
           /\ \A k \in 2..n : messages[k].role # "system"
           /\ SubSeq(messages, 2, n - 1) = conversation_history
           /\ messages[n].role = "user"
           /\ IsPrefix(question, messages[n].content)
           /\ Contains(messages[1].content, <<"Memory of the files read:">>)
                  <=> memories # <<>>
           /\ \A k \in 1..Len(memories) :
                  Contains(messages[1].content, <<NL>> \o to_string(memories[k]))

\* a step is about to call the model with a record stored by an earlier ask
\* and a record stored by an earlier step of this ask
C18_Witness ==
    /\ pc = "running"
    /\ step = 2
    /\ memories0 # <<>>
    /\ Len(memories) = Len(memories0) + 1

\* C22: memories are never cleared automatically: whatever is done other
\* than clear_memory and clear_history, and however an ask ends, the number
\* of stored records does not decrease and no stored file_path disappears.
C22_MemoriesKeptWithoutClear ==
    [][last' \notin {"clear_memory", "clear_history"}
       => /\ Len(memories') >= Len(memories)
          /\ Paths(memories) \subseteq Paths(memories')]_vars

\* an ask that began with a stored record has ended on the step budget,
\* after it stored a record for that path again and one for another path
C22_Witness ==
    /\ AskEnded
    /\ outcome \in {"budget", "transport_error"}
    /\ memories0 # <<>>
    /\ Len(memories) = Len(memories0) + 1
    /\ Paths(memories0) \subseteq Paths(memories)

\* C23: during and after an ask the step records number at most max_steps,
\* their step indices are 1, 2, ..., len(steps) in order, and a step record
\* carries a final answer only if it is the last one.
C23_StepRecordsWellFormed ==
    /\ Len(steps) <= max_steps
    /\ \A n \in 1..Len(steps) :
           /\ steps[n].step = n
           /\ Answered(steps[n]) => n = Len(steps)

\* an ask has used its whole budget and ended with an answer at the last step
C23_Witness ==
    /\ AskEnded
    /\ Len(steps) = MaxSteps
    /\ Answered(steps[Len(steps)])
    /\ ~Answered(steps[1])

----------------------------------------------------------------------------
(* Properties of one step *)

\* the first reply has been handled
WasParsed == parse # NoParse

\* C11: parsing a Thought line followed by one Action line of the form
\* name(key="value", ...) gives the thought text, the tool name, the mapping
\* of each key to its quoted value, an empty final answer and no memory.
C11_ThoughtActionParsed ==
    WasParsed =>
        \A t \in ThoughtTexts, name \in {"read_file", "nope"}, args \in ArgLists :
            parse.response = ThoughtAction(t, name, args)
            => /\ parse.thought = t
               /\ parse.action = name
               /\ parse.action_args = args
               /\ parse.answer = <<>>
               /\ parse.memory_data = None

\* the parameters the tool catalog declares as integers
NumericParams == {"max_lines", "start_line", "max_results"}

\* the reply just handled made the dispatcher call the Code Index Provider
Invoked ==
    /\ WasParsed
    /\ outcome # "tool_call_error"
    /\ steps # <<>>
    /\ "observation" \in DOMAIN steps[Len(steps)]
    /\ parse.action \in ToolNames
    /\ ~BindRaises(parse.action, parse.action_args)

\* C17: when the parser hands a numeric parameter (max_lines, start_line,
\* max_results) to the dispatcher as a string, the operation of the Code
\* Index Provider is invoked with that parameter as an integer.
C17_NumericCoercion ==
    Invoked =>
        \A k \in NumericParams \cap Keys(parse.action_args) :
            SearcherCall(parse.action, parse.action_args)[k].type = "int"

\* the tokens of a text
Range(s) == {s[n] : n \in 1..Len(s)}

\* the reply holds a Memory: block with the six labelled lines in their order
SixLines(r) ==
    SelectSeq(r, LAMBDA t : t \in Range(Labels) \cup {"Memory:"}) = <<"Memory:">> \o Labels

\* the text of the k-th labelled line of such a block, after its label
FieldText(r, k) ==
    LET At(l) == CHOOSE n \in 1..Len(r) : r[n] = l
    IN  SubSeq(r, At(Labels[k]) + 1,
               IF k < Len(Labels) THEN At(Labels[k + 1]) - 2 ELSE Len(r))

\* C19: the parsed memory is not None whenever the reply holds a Memory:
\* block with the six labelled lines in their order, also when a label has
\* an empty value (a closing "needed_info:" without text, as in the prompt's
\* example); key_definitions and dependencies are the comma-separated
\* elements, trimmed, without the empty ones.
C19_SixLinesGiveMemory ==
    (WasParsed /\ SixLines(parse.response))
    => /\ parse.memory_data # None
       /\ parse.memory_data.key_definitions = StrippedItems(FieldText(parse.response, 3))
       /\ parse.memory_data.dependencies = StrippedItems(FieldText(parse.response, 5))

\* the reply holds a Memory: block that lacks one of the six labelled lines
LacksLine(r) == "Memory:" \in Range(r) /\ ~SixLines(r)

\* C20: a reply whose Memory: block lacks at least one of the six labelled
\* lines gives memory None and its step leaves the memory store as it was; a
\* reply with a Final Answer and no Memory: block gives a non-empty answer
\* and memory None.
C20_AllOrNothing ==
    (WasParsed /\ last = "step")
    => /\ LacksLine(parse.response)
          => parse.memory_data = None /\ memories = memories0
       /\ ("Final Answer:" \in Range(parse.response)
           /\ "Memory:" \notin Range(parse.response))
          => parse.answer # <<>> /\ parse.memory_data = None /\ memories = memories0

\* a reply whose block lacks only the dependencies line has been handled
\* with a record in the store
C20_Witness ==
    /\ WasParsed
    /\ last = "step"
    /\ memories0 # <<>>
    /\ SelectSeq(parse.response, LAMBDA t : t \in Range(Labels))
           = <<"file:", "overview:", "key_definitions:", "core_logic:", "needed_info:">>
    /\ parse.answer # <<>>

\* the markers of the response grammar
Markers == {"Thought:", "Action:", "Final Answer:", "Memory:"}

\* the text after the first Thought: marker of r, up to the next marker of
\* any kind or the end of r
ThoughtText(r) ==
    LET t == CHOOSE n \in 1..Len(r) : r[n] = "Thought:" /\ \A k \in 1..(n - 1) : r[k] # "Thought:"
        E == {e \in (t + 1)..(Len(r) + 1) : e = Len(r) + 1 \/ r[e] \in Markers}
    IN  SubSeq(r, t + 1, (CHOOSE e \in E : \A d \in E : e <= d) - 1)

\* C21: the parsed thought is the text after the Thought: marker up to the
\* next marker of any kind (Action:, Final Answer: or Memory:) or the end of
\* the reply: for "Thought: X" followed by a "Final Answer: Y" line the
\* thought is X and holds nothing of the final answer.
C21_ThoughtEndsAtNextMarker ==
    (WasParsed /\ "Thought:" \in Range(parse.response)
     /\ Strip(ThoughtText(parse.response)) # <<>>)
    => /\ parse.thought = Strip(ThoughtText(parse.response))
       /\ Range(parse.thought) \cap Markers = {}

====
